---- MODULE Spec2Model ----
(***************************************************************************)
(* A model of the Trasformator pattern-art pipeline: the tone adjuster and *)
(* mask builder of src/src/lib/imageOps.ts, the pattern tile generator,    *)
(* the masked compositor and the App component that drives them.           *)
(*                                                                         *)
(* JavaScript numbers are IEEE-754 doubles.  The first part of the module  *)
(* is an exact model of double arithmetic (round to nearest, ties to even) *)
(* on arbitrary-size naturals, so that the pipeline's comparisons are      *)
(* decided as the code decides them.  Subnormals, infinities and NaN are   *)
(* not modelled: no value of the pipeline leaves the range 2^-200..2^40.   *)
(***************************************************************************)
EXTENDS Integers, Sequences, FiniteSets, TLC

(***************************************************************************)
(* The state of the App component (its useState cells, the useMemo cell    *)
(* and the display canvas), and the environment's book-keeping.            *)
(*   status, zoom and isDragging are left out: they feed only the text and *)
(*   the CSS of the page and are read by no part of the pipeline.          *)
(***************************************************************************)
VARIABLES
    bitmap,           \* useState: the decoded ImageBitmap, or NoBitmap
    fileName,         \* useState
    adjustments,      \* useState: [brightness, contrast, threshold]
    presetId,         \* useState
    patternType,      \* useState
    patternSide,      \* useState
    patternOptions,   \* useState: [scale (hundredths), stroke (quarters), rotation]
    invertColors,     \* useState
    patternColor,     \* useState
    backgroundColor,  \* useState
    identity,         \* which objects adjustments and patternOptions are
    pattern,          \* useMemo: the CanvasPattern, or NoPattern (null)
    canvas,           \* the display canvas behind canvasRef
    last,             \* what the latest run of the render effect did
    pending,          \* createImageBitmap calls in flight
    selected,         \* the file most recently handed to handleFile
    events,           \* user events (files chosen, controls changed) so far
    failures,         \* surfaces the environment has refused so far
    call,             \* a direct call of a library function: its arguments
    ret               \* ... and what it returned

vars == <<bitmap, fileName, adjustments, presetId, patternType, patternSide,
          patternOptions, invertColors, patternColor, backgroundColor, identity,
          pattern, canvas, last, pending, selected, events, failures, call, ret>>

Max(a, b) == IF a >= b THEN a ELSE b
Min(a, b) == IF a <= b THEN a ELSE b
Abs(a) == IF a < 0 THEN -a ELSE a

(***************************************************************************)
(* Naturals of arbitrary size: little-endian sequences of 13-bit limbs.    *)
(***************************************************************************)
LimbBits == 10 + 3
Radix == 2^LimbBits

Limb(a, k) == IF k <= Len(a) THEN a[k] ELSE 0

RECURSIVE Carry(_, _, _)
Carry(s, k, c) ==
    IF k > Len(s)
    THEN IF c = 0 THEN <<>> ELSE <<c % Radix>> \o Carry(s, k, c \div Radix)
    ELSE LET v == s[k] + c IN <<v % Radix>> \o Carry(s, k + 1, v \div Radix)

BigNorm(s) == Carry(s, 1, 0)

BigAdd(a, b) == BigNorm([k \in 1..Max(Len(a), Len(b)) |-> Limb(a, k) + Limb(b, k)])

RECURSIVE ColSum(_, _, _, _)
ColSum(a, b, k, i) ==
    IF i > Len(a) \/ i > k THEN 0
    ELSE a[i] * Limb(b, k + 1 - i) + ColSum(a, b, k, i + 1)

BigMul(a, b) == BigNorm([k \in 1..(Len(a) + Len(b)) |-> ColSum(a, b, k, 1)])

RECURSIVE Borrow(_, _, _, _)
Borrow(a, b, k, br) ==
    IF k > Len(a) THEN <<>>
    ELSE LET v == a[k] - Limb(b, k) - br
         IN  IF v < 0 THEN <<v + Radix>> \o Borrow(a, b, k + 1, 1)
                      ELSE <<v>> \o Borrow(a, b, k + 1, 0)

\* a - b, for a >= b
BigSub(a, b) == Borrow(a, b, 1, 0)

RECURSIVE CmpFrom(_, _, _)
CmpFrom(a, b, k) ==
    IF k = 0 THEN 0
    ELSE IF Limb(a, k) > Limb(b, k) THEN 1
    ELSE IF Limb(a, k) < Limb(b, k) THEN -1
    ELSE CmpFrom(a, b, k - 1)

BigCmp(a, b) == CmpFrom(a, b, Max(Len(a), Len(b)))

BigIsZero(a) == \A k \in 1..Len(a) : a[k] = 0
BigIsOdd(a) == Limb(a, 1) % 2 = 1

RECURSIVE IntBitLen(_)
IntBitLen(n) == IF n = 0 THEN 0 ELSE 1 + IntBitLen(n \div 2)

RECURSIVE TopLimb(_, _)
TopLimb(a, k) == IF k = 0 THEN 0 ELSE IF a[k] # 0 THEN k ELSE TopLimb(a, k - 1)

BigBitLen(a) ==
    LET t == TopLimb(a, Len(a))
    IN  IF t = 0 THEN 0 ELSE (t - 1) * LimbBits + IntBitLen(a[t])

BigShl(a, n) ==
    LET q == n \div LimbBits
        r == n % LimbBits
    IN  BigNorm([k \in 1..(Len(a) + q) |-> IF k <= q THEN 0 ELSE a[k - q] * 2^r])

BigShr(a, n) ==
    LET q == n \div LimbBits
        r == n % LimbBits
    IN  [k \in 1..Max(Len(a) - q, 0) |->
            (Limb(a, k + q) \div 2^r) + (Limb(a, k + q + 1) % 2^r) * 2^(LimbBits - r)]

\* a mod 2^n
BigLow(a, n) ==
    LET q == n \div LimbBits
        r == n % LimbBits
    IN  [k \in 1..(q + 1) |-> IF k <= q THEN Limb(a, k) ELSE Limb(a, k) % 2^r]

RECURSIVE BigToInt(_, _)
BigToInt(a, k) == IF k > Len(a) THEN 0 ELSE a[k] + Radix * BigToInt(a, k + 1)

\* Division by a divisor below 2^17, one limb of the dividend at a time,
\* from limb k down to 1; q holds the limbs of the quotient found so far.
RECURSIVE ShortDiv(_, _, _, _, _)
ShortDiv(n, d, k, r, q) ==
    IF k = 0 THEN [quot |-> q, rem |-> <<r>>]
    ELSE ShortDiv(n, d, k - 1, (r * Radix + n[k]) % d, <<(r * Radix + n[k]) \div d>> \o q)

\* c * d <= r
Fits(c, r, d) == c >= 0 /\ BigCmp(BigMul(<<c>>, d), r) <= 0

\* floor(r / d), given a guess that is off by one at most
QuotNear(r, d, guess) ==
    IF Fits(guess + 1, r, d) THEN guess + 1 ELSE IF Fits(guess, r, d) THEN guess ELSE guess - 1

\* The quotient of the bits of r and d above bit s.
QuotGuess(r, d, s) == BigToInt(BigShr(r, s), 1) \div BigToInt(BigShr(d, s), 1)

\* floor(r / d) for r < d * Radix and d >= 2^17: the quotient of the leading
\* bits of r by the leading 17 bits of d is off by one at most.
QuotDigit(r, d) == QuotNear(r, d, QuotGuess(r, d, BigBitLen(d) - (LimbBits + 4)))

\* Long division, one limb of the dividend at a time, from limb k down to 1:
\* r is the remainder so far and q the limbs of the quotient found so far.
RECURSIVE LongDiv(_, _, _, _, _)
RECURSIVE LongDivDigit(_, _, _, _, _, _)
LongDiv(n, d, k, r, q) ==
    IF k = 0 THEN [quot |-> q, rem |-> r]
    ELSE LongDivDigit(n, d, k, <<n[k]>> \o r, q, QuotDigit(<<n[k]>> \o r, d))

LongDivDigit(n, d, k, r, q, c) == LongDiv(n, d, k - 1, BigSub(r, BigMul(<<c>>, d)), <<c>> \o q)

BigDivMod(n, d) ==
    IF BigBitLen(d) <= LimbBits + 4 THEN ShortDiv(n, BigToInt(d, 1), Len(n), 0, <<>>)
    ELSE LongDiv(n, d, Len(n), <<>>, <<>>)

(***************************************************************************)
(* Doubles: [neg, m, e] is the number (-1)^neg * m * 2^e with m < 2^53.    *)
(***************************************************************************)
MantissaBits == 50 + 3

\* q * 2^e, one up when c, the dropped bits against the half, says so
RoundHalfEven(neg, q, e, c) ==
    [neg |-> neg, m |-> IF c > 0 \/ (c = 0 /\ BigIsOdd(q)) THEN BigAdd(q, <<1>>) ELSE q, e |-> e]

\* x without its k lowest bits, rounded to nearest, ties to even
DropBits(x, k) ==
    IF k <= 0 THEN x
    ELSE RoundHalfEven(x.neg, BigShr(x.m, k), x.e + k, BigCmp(BigLow(x.m, k), BigShl(<<1>>, k - 1)))

\* The double nearest to the number x = [neg, m, e], m of any size
RoundDouble(x) == DropBits(x, BigBitLen(x.m) - MantissaBits)

FromInt(n) == [neg |-> n < 0, m |-> BigNorm(<<Abs(n)>>), e |-> 0]

FIsZero(x) == BigIsZero(x.m)
FNeg(x) == [x EXCEPT !.neg = ~x.neg]

FMul(x, y) == RoundDouble([neg |-> x.neg # y.neg, m |-> BigMul(x.m, y.m), e |-> x.e + y.e])

\* The sum of xm * 2^e and ym * 2^e with the signs xneg and yneg
AlignedSum(xneg, xm, yneg, ym, e) ==
    IF xneg = yneg THEN [neg |-> xneg, m |-> BigAdd(xm, ym), e |-> e]
    ELSE IF BigCmp(xm, ym) >= 0 THEN [neg |-> xneg, m |-> BigSub(xm, ym), e |-> e]
    ELSE [neg |-> yneg, m |-> BigSub(ym, xm), e |-> e]

\* The exact sum of two doubles, unrounded: [neg, m, e].
ExactSum(x, y) ==
    IF FIsZero(x) THEN y
    ELSE IF FIsZero(y) THEN x
    ELSE AlignedSum(x.neg, BigShl(x.m, x.e - Min(x.e, y.e)),
                    y.neg, BigShl(y.m, y.e - Min(x.e, y.e)), Min(x.e, y.e))

FAdd(x, y) == RoundDouble(ExactSum(x, y))
FSub(x, y) == FAdd(x, FNeg(y))

\* The quotient qr.quot * 2^(e + 1), with a sticky bit for a remainder
Quotient(neg, qr, e) ==
    RoundDouble([neg |-> neg,
                 m   |-> BigAdd(BigAdd(qr.quot, qr.quot), <<IF BigIsZero(qr.rem) THEN 0 ELSE 1>>),
                 e   |-> e])

\* x / y with p more bits given to x, enough for 56 bits of quotient
DivideShifted(x, y, p) == Quotient(x.neg # y.neg, BigDivMod(BigShl(x.m, p), y.m), x.e - y.e - p - 1)

FDiv(x, y) ==
    IF FIsZero(x) THEN FromInt(0)
    ELSE DivideShifted(x, y, Max(0, MantissaBits + 3 + BigBitLen(y.m) - BigBitLen(x.m)))

\* -1, 0 or 1 as d < 0, d = 0, d > 0
Sign(d) == IF BigIsZero(d.m) THEN 0 ELSE IF d.neg THEN -1 ELSE 1

\* -1, 0 or 1 as x < y, x = y, x > y
FCmp(x, y) == Sign(ExactSum(x, FNeg(y)))

FGe(x, y) == FCmp(x, y) >= 0
FMin(x, y) == IF FCmp(x, y) <= 0 THEN x ELSE y
FMax(x, y) == IF FCmp(x, y) >= 0 THEN x ELSE y

\* The integer q, one up when the k lowest bits of m reach the half
RoundUpFrom(q, m, k) == IF BigCmp(BigLow(m, k), BigShl(<<1>>, k - 1)) >= 0 THEN q + 1 ELSE q

\* Math.round of a double >= 0: floor(x + 0.5), as an integer
MathRound(x) ==
    IF x.e >= 0 THEN BigToInt(BigShl(x.m, x.e), 1)
    ELSE RoundUpFrom(BigToInt(BigShr(x.m, -x.e), 1), x.m, -x.e)

\* Math.floor of a double >= 0, as an integer
MathFloor(x) ==
    IF x.e >= 0 THEN BigToInt(BigShl(x.m, x.e), 1) ELSE BigToInt(BigShr(x.m, -x.e), 1)

(***************************************************************************)
(* Bounds of the model.                                                    *)
(***************************************************************************)
\* The x of the pixel column that is watched besides columns 0 and 1.
ProbeX == 16
\* createImageBitmap calls that may be in flight together.
MaxPending == 2
\* User events (a file chosen or dropped, a control changed) in one behaviour.
MaxEvents == 2
\* Drawing surfaces the environment may refuse in one behaviour.
MaxFailures == 1

(***************************************************************************)
(* Raster buffers.  A buffer is [width, height, data]; data gives the      *)
(* pixel at each watched point that lies inside the buffer.  Every stage   *)
(* of the pipeline works pixel by pixel, so the watched points evolve as   *)
(* they do in the full buffer.                                             *)
(***************************************************************************)
SamplePoints == {<<0, 0>>, <<1, 0>>, <<0, 1>>, <<1, 1>>, <<ProbeX, 0>>}

InBounds(w, h) == {p \in SamplePoints : p[1] < w /\ p[2] < h}

RGBA(r, g, b, a) == [r |-> r, g |-> g, b |-> b, a |-> a]

Clear == RGBA(0, 0, 0, 0)
White == RGBA(255, 255, 255, 255)
Black == RGBA(0, 0, 0, 255)

Buffer(w, h, data) == [width |-> w, height |-> h, data |-> data]

NoBuffer == [width |-> -1, height |-> -1, data |-> <<>>]

(***************************************************************************)
(* imageOps.ts: the tone adjuster.                                         *)
(***************************************************************************)
F(n) == FromInt(n)

clamp(value, min, max) == FMin(max, FMax(min, value))

\* factor, from c, the contrast divided by 100 and clamped
ContrastFactor(c) ==
    FDiv(FMul(F(259), FAdd(FMul(c, F(255)), F(255))),
         FMul(F(255), FSub(F(259), FMul(c, F(255)))))

\* The values applyAdjustments derives from the adjustments before its loop:
\* b, factor (from c) and tValue (from t).
ToneFactors(adj) ==
    [b      |-> clamp(FDiv(F(adj.brightness), F(100)), F(-1), F(1)),
     factor |-> ContrastFactor(clamp(FDiv(F(adj.contrast), F(100)), F(-1), F(1))),
     tValue |-> FMul(FDiv(clamp(F(adj.threshold), F(0), F(100)), F(100)), F(255))]

\* gray, as the loop computes it from the bytes of one pixel; the literals
\* 0.299, 0.587 and 0.114 are the doubles nearest to 299/1000, 587/1000 and
\* 114/1000.
GrayOf(px) ==
    FAdd(FAdd(FMul(FDiv(F(299), F(1000)), F(px.r)), FMul(FDiv(F(587), F(1000)), F(px.g))),
         FMul(FDiv(F(114), F(1000)), F(px.b)))

\* What getImageData reads back for a pixel drawn on a transparent canvas:
\* the canvas holds premultiplied colour, so a transparent pixel reads 0,0,0,0.
ReadBack(px) == IF px.a = 0 THEN Clear ELSE px

(***************************************************************************)
(* The inputs of the model: source pixels, adjustments, files.             *)
(***************************************************************************)
DEFAULT_ADJUSTMENTS == [brightness |-> 0, contrast |-> 0, threshold |-> 55]

PRESETS == <<
    [id |-> "neutral",       adjustments |-> [brightness |-> 0,   contrast |-> 0,  threshold |-> 55]],
    [id |-> "soft",          adjustments |-> [brightness |-> -5,  contrast |-> 10, threshold |-> 45]],
    [id |-> "bold",          adjustments |-> [brightness |-> 5,   contrast |-> 20, threshold |-> 60]],
    [id |-> "high-contrast", adjustments |-> [brightness |-> -10, contrast |-> 35, threshold |-> 65]],
    [id |-> "film",          adjustments |-> [brightness |-> 8,   contrast |-> 12, threshold |-> 50]] >>

PresetIds == {PRESETS[k].id : k \in 1..Len(PRESETS)}

\* PRESETS.find((preset) => preset.id === id)
FindPreset(id) == CHOOSE q \in {PRESETS[k] : k \in 1..Len(PRESETS)} : q.id = id

\* The values the three adjustment sliders are moved to.
BrightnessInputs == {50}
ContrastInputs == {60}
ThresholdInputs == {50}

\* Every adjustments value the App can hold.
AppAdjustments ==
    [brightness : {PRESETS[k].adjustments.brightness : k \in 1..Len(PRESETS)} \cup BrightnessInputs,
     contrast   : {PRESETS[k].adjustments.contrast : k \in 1..Len(PRESETS)} \cup ContrastInputs,
     threshold  : {PRESETS[k].adjustments.threshold : k \in 1..Len(PRESETS)} \cup ThresholdInputs]

\* The adjustments applyAdjustments is called with directly: in, at the edge
\* of, and outside the documented ranges.
CallAdjustments ==
    [brightness : {-150, -100, 0}, contrast : {0, 100, 150}, threshold : {-20, 0, 50, 100, 120}]

\* The source pixels applyAdjustments is called with directly.  The second
\* and third have 0.299 R + 0.587 G + 0.114 B = 127.5 exactly.
CallPixels ==
    { Black, White, RGBA(0, 204, 68, 255), RGBA(1, 173, 225, 255),
      RGBA(127, 127, 127, 255), RGBA(128, 128, 128, 255), RGBA(255, 0, 0, 255),
      RGBA(200, 100, 50, 0) }

Gray120 == RGBA(120, 132, 124, 255)

\* The pixels of the files.
FilePixels == {Black, White, Gray120}

AdjustmentDomain == AppAdjustments \cup CallAdjustments
PixelDomain == {ReadBack(px) : px \in CallPixels \cup FilePixels}

(***************************************************************************)
(* Tables of the tone adjuster's values.  (f @@ <<>> is the function f,    *)
(* with its values computed once, when the table is first built.)          *)
(***************************************************************************)
GrayMemo == [px \in PixelDomain |-> GrayOf(px)] @@ <<>>

ToneFactorsMemo == [adj \in AdjustmentDomain |-> ToneFactors(adj)] @@ <<>>

\* adjusted: gray after the contrast, the brightness and the clamp
Adjusted(gray, tf) ==
    clamp(FAdd(FAdd(FMul(tf.factor, FSub(gray, F(128))), F(128)), FMul(tf.b, F(255))),
          F(0), F(255))

\* binary
Binary(gray, tf) == IF FGe(Adjusted(gray, tf), tf.tValue) THEN 255 ELSE 0

\* data[i] = data[i + 1] = data[i + 2] = binary; data[i + 3] = 255
Opaque(binary) == RGBA(binary, binary, binary, 255)

BinaryPixelAlphaKept(px, tf) == [Opaque(Binary(GrayMemo[px], tf)) EXCEPT !.a = px.a]

\* The loop body of applyAdjustments: the pixel written for the pixel read.
BinaryPixel(px, tf) == Opaque(Binary(GrayMemo[px], tf))

BinaryMemo ==
    [k \in AdjustmentDomain \X PixelDomain |-> BinaryPixel(k[2], ToneFactorsMemo[k[1]])] @@ <<>>

\* putImageData and return: the target canvas and the ImageData hold the
\* same pixels.
Processed(data) == [error |-> "none", target |-> data, processed |-> data]

\* applyAdjustments(source, target, adjustments, size): drawn is what
\* drawImage put at the watched points of the width x height target;
\* ctxOk is whether target.getContext("2d") gave a context.
applyAdjustments(drawn, ctxOk, adj, width, height) ==
    IF ~ctxOk
    THEN [error |-> "Canvas context not available", target |-> NoBuffer, processed |-> NoBuffer]
    ELSE IF width = 0 \/ height = 0
    THEN [error |-> "IndexSizeError",
          target |-> Buffer(width, height, <<>>), processed |-> NoBuffer]
    ELSE Processed(Buffer(width, height,
                          [p \in InBounds(width, height) |-> BinaryMemo[<<adj, ReadBack(drawn[p])>>]]))

(***************************************************************************)
(* imageOps.ts: the mask builder.                                          *)
(***************************************************************************)
MaskPixelOfAlpha(px, patternOn) ==
    LET value == px.a
        isLight == value = 255
        patternArea == IF patternOn = "dark" THEN ~isLight ELSE isLight
    IN  RGBA(0, 0, 0, IF patternArea THEN 255 ELSE 0)

MaskPixel(px, patternOn) ==
    LET value == px.r
        isLight == value = 255
        patternArea == IF patternOn = "dark" THEN ~isLight ELSE isLight
    IN  RGBA(0, 0, 0, IF patternArea THEN 255 ELSE 0)

createMaskCanvas(imageData, patternOn, ctxOk) ==
    IF ~ctxOk
    THEN [error |-> "Canvas context not available", mask |-> NoBuffer]
    ELSE [error |-> "none",
          mask |-> Buffer(imageData.width, imageData.height,
                          [p \in DOMAIN imageData.data |-> MaskPixel(imageData.data[p], patternOn)])]

(***************************************************************************)
(* imageOps.ts: the pattern tile generator.                                *)
(* options.scale is kept in hundredths and options.stroke in quarters;    *)
(* the code sees the doubles scale/100, stroke/4.                          *)
(***************************************************************************)
PatternTypes == {"dots", "diagonal", "grid", "checker", "crosshatch"}

DEFAULT_PATTERN == [scale |-> 80, stroke |-> 6, rotation |-> 45]

DEFAULT_COLORS == [pattern |-> "#0f172a", background |-> "#ffffff"]

baseSize == 80
cells == 4

NoPattern == [type |-> "null"]

\* The values the pattern sliders are moved to.
ScaleInputs == {50}
StrokeInputs == {2}
RotationInputs == {90}

\* The options createPattern is called with directly: in, at the edge of,
\* and outside the documented ranges.
CallOptions == [scale : {30, 50, 51, 80, 300, 400}, stroke : {1, 2, 6, 24, 40}, rotation : {-45, 0, 180, 270}]

ScaleDomain == {DEFAULT_PATTERN.scale} \cup ScaleInputs \cup {o.scale : o \in CallOptions}

\* m without its leading zero limbs
Trim(m) == SubSeq(m, 1, Max(TopLimb(m, Len(m)), 1))

\* m * 2^e with an odd m, or 0 * 2^0
RECURSIVE StripZeros(_, _)
StripZeros(m, e) ==
    IF BigIsZero(m) THEN [m |-> <<0>>, e |-> 0]
    ELSE IF m[1] = 0 THEN StripZeros(SubSeq(m, 2, Len(m)), e + LimbBits)
    ELSE IF BigIsOdd(m) THEN [m |-> Trim(m), e |-> e]
    ELSE StripZeros(BigShr(m, 1), e + 1)

Signed(neg, z) == [neg |-> neg, m |-> z.m, e |-> z.e]

\* The one representation of a double: an odd mantissa without leading zero limbs.
Canon(x) == Signed(x.neg /\ ~FIsZero(x), StripZeros(x.m, x.e))

\* const size = Math.max(24, baseSize * options.scale)
TileSize(scale) == Canon(FMax(F(24), FMul(F(baseSize), FDiv(F(scale), F(100)))))

\* The checker branch: fillRect(x * cell, y * cell, cell, cell) covers, along
\* one axis, the stretch from n * cell to n * cell + cell.  Whether the
\* stretch covers the pixel [t, t + 1] wholly, or in part at least.
Inside(n, t, cell) ==
    /\ FCmp(FMul(F(n), cell), F(t)) <= 0
    /\ FCmp(F(t + 1), FAdd(FMul(F(n), cell), cell)) <= 0

Touches(n, t, cell) ==
    /\ FCmp(FMul(F(n), cell), F(t + 1)) < 0
    /\ FCmp(FAdd(FMul(F(n), cell), cell), F(t)) > 0

\* The cells x, y with (x + y) % 2 === 0
FilledCells == {c \in (0..(cells - 1)) \X (0..(cells - 1)) : (c[1] + c[2]) % 2 = 0}

\* The checker branch, at the pixel t of the tile: whether the filled cells
\* cover the pixel wholly ("opaque"), not at all ("clear") or in part ("edge").
CheckerCoverage(cell, t) ==
    IF \E c \in FilledCells : \A i \in 1..2 : Inside(c[i], t[i], cell) THEN "opaque"
    ELSE IF \E c \in FilledCells : \A i \in 1..2 : Touches(c[i], t[i], cell) THEN "edge"
    ELSE "clear"

\* The pixels of a tile of width w that lie under the watched points.
TilePoints(w) == {<<p[1] % w, p[2] % w>> : p \in SamplePoints}

\* for (let x = -size; x < size * 2; x += spacing): the values of x, in order.
RECURSIVE LineStarts(_, _, _)
LineStarts(x, limit, spacing) ==
    IF FCmp(x, limit) < 0
        THEN <<Canon(x)>> \o LineStarts(FAdd(x, spacing), limit, spacing)
        ELSE <<>>

\* The tile canvas of a size: tile.width = tile.height = size, which the
\* canvas converts to an integer; the checker branch's coverage of its
\* pixels, cell = size / cells; and the starts moveTo(x, 0) of the lines of
\* the diagonal branch, spacing = size / 3.2, and of the crosshatch branch,
\* spacing = size / 4.
TileCanvas(size) ==
    [size       |-> size,
     width      |-> MathFloor(size),
     checker    |-> [t \in TilePoints(MathFloor(size)) |->
                       CheckerCoverage(FDiv(size, F(cells)), t)] @@ <<>>,
     diagonal   |-> LineStarts(FNeg(size), FMul(size, F(2)), FDiv(size, FDiv(F(32), F(10)))),
     crosshatch |-> LineStarts(FNeg(size), FMul(size, F(2)), FDiv(size, F(4)))]

TileMemo == [sc \in ScaleDomain |-> TileCanvas(TileSize(sc))] @@ <<>>

\* The pattern of a tile canvas: its width, and what its pixels depend on:
\* the colour, the geometry's size, the options its branch reads, and for
\* the two line branches the starts of the lines and which ways they slope
\* before any rotation: "down" from (x, 0) to (x + size, size), "up" from
\* (x + size, 0) to (x, size).
PatternOf(type, opts, color, tile) ==
    [type     |-> type,
     width    |-> tile.width,
     size     |-> tile.size,
     color    |-> color,
     scale    |-> IF type = "dots" THEN opts.scale ELSE 0,
     stroke   |-> IF type \in {"diagonal", "grid", "crosshatch"} THEN opts.stroke ELSE 0,
     rotation |-> IF type = "diagonal" THEN opts.rotation ELSE 0,
     checker  |-> IF type = "checker" THEN tile.checker ELSE <<>>,
     lines    |-> IF type = "diagonal" THEN tile.diagonal
                  ELSE IF type = "crosshatch" THEN tile.crosshatch
                  ELSE <<>>,
     slopes   |-> IF type = "diagonal" THEN {"down"}
                  ELSE IF type = "crosshatch" THEN {"down", "up"}
                  ELSE {}]

\* createPattern(type, options, color); ctxOk is whether
\* tile.getContext("2d") gave a context.
createPattern(type, opts, color, ctxOk) ==
    IF ~ctxOk THEN NoPattern ELSE PatternOf(type, opts, color, TileMemo[opts.scale])

\* How the tile covers one of its pixels.  The strokes and arcs of the other
\* branches are rasterised by the browser: "drawn" stands for whatever
\* coverage it gives the pixel.
TileCoverage(tile, tx, ty) ==
    IF tile.type = "checker" THEN tile.checker[<<tx, ty>>] ELSE "drawn"

(***************************************************************************)
(* Canvas compositing, pixel by pixel.  A canvas pixel is an RGBA record,  *)
(* or [src, under]: a tile pixel of browser-drawn coverage over `under`.   *)
(***************************************************************************)
\* The CSS colours of the model, as the canvas parses them.
ColorRGB(color) ==
    CASE color = "#0f172a" -> <<15, 23, 42>>
      [] color = "#ffffff" -> <<255, 255, 255>>
      [] color = "#000000" -> <<0, 0, 0>>

Solid(color) == LET c == ColorRGB(color) IN RGBA(c[1], c[2], c[3], 255)

IsBlend(px) == "under" \in DOMAIN px

\* Alpha of a canvas pixel (-1: not known); drawing over an opaque pixel
\* leaves it opaque.
PixelAlpha(px) == IF ~IsBlend(px) THEN px.a ELSE IF px.under.a = 255 THEN 255 ELSE -1

\* fillRect with a CanvasPattern as fillStyle, "source-over", at point p
FillPattern(tile, p, dst) ==
    LET tx  == p[1] % tile.width
        ty  == p[2] % tile.width
        cov == TileCoverage(tile, tx, ty)
    IN  IF cov = "opaque" THEN Solid(tile.color)
        ELSE IF cov = "clear" THEN dst
        ELSE [src |-> [tile |-> tile, at |-> <<tx, ty>>], under |-> dst]

\* "source-over" with a source pixel of alpha 0 or 255
SourceOver(src, dst) == IF src.a = 255 THEN src ELSE dst

\* "destination-out": a slip for "destination-in"
DestinationOut(src, dst) == IF src.a = 0 THEN dst ELSE Clear

\* "destination-in" with a source pixel of alpha 0 or 255
DestinationIn(src, dst) == IF src.a = 255 THEN dst ELSE Clear

\* "source-in" with an opaque source
SourceIn(src, dst) ==
    IF PixelAlpha(dst) = 255 THEN src ELSE IF PixelAlpha(dst) = 0 THEN Clear ELSE [src |-> src, under |-> dst]

\* The pixel of an image drawn at 0,0, seen from point p of the canvas
ImageAt(image, p) == IF p \in DOMAIN image.data THEN image.data[p] ELSE Clear

\* compositor: paintPatternMasked(ctx, pattern, mask), on the canvas cv
paintPatternMasked(cv, tile, mask) ==
    LET tiled == [p \in DOMAIN cv.data |->
                    IF p[1] < mask.width /\ p[2] < mask.height
                    THEN FillPattern(tile, p, cv.data[p]) ELSE cv.data[p]]
    IN  Buffer(cv.width, cv.height,
               [p \in DOMAIN cv.data |-> DestinationIn(ImageAt(mask, p), tiled[p])])

\* The else branch of the render effect (pattern is null), on the canvas cv
FallbackPaint(cv, mask, color, width, height) ==
    LET drawn == [p \in DOMAIN cv.data |-> SourceOver(ImageAt(mask, p), cv.data[p])]
    IN  Buffer(cv.width, cv.height,
               [p \in DOMAIN cv.data |->
                    IF p[1] < width /\ p[2] < height
                    THEN SourceIn(Solid(color), drawn[p]) ELSE drawn[p]])

(***************************************************************************)
(* App: the files, the sizing rule and the render effect.                  *)
(***************************************************************************)
NoBitmap == [name |-> "", width |-> 0, height |-> 0, px |-> <<>>]

FileNames == {"strip.png", "big.png", "wide.png"}

\* What createImageBitmap decodes each file to.  strip.png holds the 2x2
\* checkerboard of white and black at its top left; the other two are of
\* one colour, which any resampling of them keeps.
FileBitmap(f) ==
    CASE f = "strip.png" ->
            [name |-> f, width |-> 2 * ProbeX, height |-> 2,
             px |-> [p \in InBounds(2 * ProbeX, 2) |->
                        IF p \in {<<0, 0>>, <<1, 1>>} THEN White ELSE Black]]
      [] f = "big.png" ->
            [name |-> f, width |-> 2560, height |-> 1920,
             px |-> [p \in InBounds(2560, 1920) |-> Gray120]]
      [] f = "wide.png" ->
            [name |-> f, width |-> 10000, height |-> 1,
             px |-> [p \in InBounds(10000, 1) |-> White]]

maxSize == 1280

\* width and height, from scale
ScaledSize(w, h, scale) ==
    [width  |-> MathRound(FMul(F(w), scale)),
     height |-> MathRound(FMul(F(h), scale))]

\* The width and height the render effect computes for a w x h bitmap
OutputSize(w, h) ==
    ScaledSize(w, h, FMin(FMin(FDiv(F(maxSize), F(w)), FDiv(F(maxSize), F(h))), F(1)))

OutputSizeMemo ==
    [f \in FileNames |-> OutputSize(FileBitmap(f).width, FileBitmap(f).height)] @@ <<>>

\* ctx.drawImage(source, 0, 0, width, height) on the fresh working canvas:
\* a copy at the source's own size, a resampling otherwise.
DrawImage(source, width, height) ==
    IF width = source.width /\ height = source.height THEN source.px
    ELSE [p \in InBounds(width, height) |-> source.px[<<0, 0>>]]

\* The canvas element before anything is drawn: 300 x 150, transparent.
DefaultCanvas == Buffer(300, 150, [p \in InBounds(300, 150) |-> Clear])

Surfaces == {"ok", "display", "working", "mask"}

LastRun(outcome, error, size, working, mask) ==
    [outcome |-> outcome, error |-> error, width |-> size.width, height |-> size.height,
     working |-> [width |-> working.width, height |-> working.height], mask |-> mask]

NoSize == [width |-> -1, height |-> -1]

\* canvas.width = width; canvas.height = height; fillRect with the background
Filled(size, bg) ==
    Buffer(size.width, size.height, [p \in InBounds(size.width, size.height) |-> Solid(bg)])

CanvasAfterThrowResized(cv, size) ==
    Buffer(size.width, size.height, [p \in InBounds(size.width, size.height) |-> Clear])

\* The display canvas after applyAdjustments or createMaskCanvas threw: the
\* effect ended before it touched the canvas.
CanvasAfterThrow(cv, size) == cv

\* The render effect from canvas.width = width on: mk is what
\* createMaskCanvas returned.
RenderMasked(pat, bg, pc, cv, size, res, mk) ==
    IF mk.error # "none"
    THEN [canvas |-> CanvasAfterThrow(cv, size),
          last   |-> LastRun("threw", mk.error, size, res.target, NoBuffer)]
    ELSE [canvas |-> IF pat # NoPattern
                     THEN paintPatternMasked(Filled(size, bg), pat, mk.mask)
                     ELSE FallbackPaint(Filled(size, bg), mk.mask, pc, size.width, size.height),
          last   |-> LastRun("painted", "none", size, res.target, mk.mask)]

\* The render effect from createMaskCanvas on: res is what applyAdjustments
\* returned.
RenderProcessed(side, pat, bg, pc, cv, surface, size, res) ==
    IF res.error # "none"
    THEN [canvas |-> CanvasAfterThrow(cv, size),
          last   |-> LastRun("threw", res.error, size, res.target, NoBuffer)]
    ELSE RenderMasked(pat, bg, pc, cv, size, res,
                      createMaskCanvas(res.processed, side, surface # "mask"))

\* The render effect from document.createElement("canvas") on: size is
\* the width and height it computed.
RenderSized(bm, adj, side, pat, bg, pc, cv, surface, size) ==
    RenderProcessed(side, pat, bg, pc, cv, surface, size,
                    applyAdjustments(DrawImage(bm, size.width, size.height),
                                     surface # "working", adj, size.width, size.height))

\* The body of the render effect.  surface names the canvas whose
\* getContext("2d") gives null in this run, if any.  The result is the
\* display canvas afterwards and the record of the run.
RenderEffect(bm, adj, side, pat, bg, pc, cv, surface) ==
    IF bm = NoBitmap
    THEN [canvas |-> cv, last |-> LastRun("no-bitmap", "none", NoSize, NoBuffer, NoBuffer)]
    ELSE IF surface = "display"
    THEN [canvas |-> cv, last |-> LastRun("no-context", "none", NoSize, NoBuffer, NoBuffer)]
    ELSE RenderSized(bm, adj, side, pat, bg, pc, cv, surface, OutputSizeMemo[bm.name])

(***************************************************************************)
(* App: the component.  Each action is one event handler together with the *)
(* React render it causes: the useMemo cell and the render effect rerun    *)
(* when one of their dependencies is a new value or a new object.          *)
(***************************************************************************)
effectivePatternColorPlain == patternColor

effectivePatternColor == IF invertColors THEN backgroundColor ELSE patternColor

effectiveBackgroundColor == IF invertColors THEN patternColor ELSE backgroundColor

ColorInputs == {"#0f172a", "#ffffff", "#000000"}

NoCall == [fn |-> "none"]

Refused(tileOk, surface) == (IF tileOk THEN 0 ELSE 1) + (IF surface = "ok" THEN 0 ELSE 1)

\* The render effect of a render, if one of its dependencies changed.
EffectRun(effectRuns, run) ==
    /\ canvas' = IF effectRuns THEN run.canvas ELSE canvas
    /\ last' = IF effectRuns THEN run.last ELSE last

EffectStalePattern(tileOk, surface, effectRuns) ==
    /\ surface # "ok" => effectRuns /\ bitmap' # NoBitmap
    /\ surface = "display" => last.outcome \notin {"threw", "painted"}
    /\ failures + Refused(tileOk, surface) <= MaxFailures
    /\ failures' = failures + Refused(tileOk, surface)
    /\ EffectRun(effectRuns,
                 RenderEffect(bitmap', adjustments', patternSide', pattern,
                              effectiveBackgroundColor', effectivePatternColor',
                              canvas, surface))

\* The render after useMemo: tileOk, surface say whether the environment
\* gives this render its 2d contexts; the display canvas gives the one
\* context it has given before.
Effect(tileOk, surface, effectRuns) ==
    /\ surface # "ok" => effectRuns /\ bitmap' # NoBitmap
    /\ surface = "display" => last.outcome \notin {"threw", "painted"}
    /\ failures + Refused(tileOk, surface) <= MaxFailures
    /\ failures' = failures + Refused(tileOk, surface)
    /\ EffectRun(effectRuns,
                 RenderEffect(bitmap', adjustments', patternSide', pattern',
                              effectiveBackgroundColor', effectivePatternColor',
                              canvas, surface))

\* useMemo of the pattern, made being what createPattern returns when it
\* runs, and then the effect, which has the pattern among its dependencies.
Memo(newAdjustments, newBitmap, tileOk, surface, memoRuns, made) ==
    /\ ~tileOk => memoRuns
    /\ pattern' = IF memoRuns THEN made ELSE pattern
    /\ Effect(tileOk, surface,
              \/ newAdjustments
              \/ newBitmap
              \/ effectiveBackgroundColor' # effectiveBackgroundColor
              \/ effectivePatternColor' # effectivePatternColor
              \/ invertColors' # invertColors
              \/ memoRuns /\ ~(made = NoPattern /\ pattern = NoPattern)
              \/ patternSide' # patternSide)

\* The render after a handler has set the useState cells (primed).
\* newAdjustments, newOptions, newBitmap: the handler stored a new object.
Rerender(newAdjustments, newOptions, newBitmap, tileOk, surface) ==
    Memo(newAdjustments, newBitmap, tileOk, surface,
         \/ newOptions
         \/ patternType' # patternType
         \/ effectivePatternColor' # effectivePatternColor,
         createPattern(patternType', patternOptions', effectivePatternColor', tileOk))

\* A control of the page is changed.
Edit == /\ events < MaxEvents
        /\ events' = events + 1
        /\ UNCHANGED <<pending, selected, call, ret>>

\* The first render: useState initial values, useMemo, and the effect,
\* which returns at once since bitmap is null.
InitApp ==
    /\ bitmap = NoBitmap
    /\ fileName = ""
    /\ adjustments = DEFAULT_ADJUSTMENTS
    /\ presetId = "neutral"
    /\ patternType = "dots"
    /\ patternSide = "dark"
    /\ patternOptions = DEFAULT_PATTERN
    /\ invertColors = FALSE
    /\ patternColor = DEFAULT_COLORS.pattern
    /\ backgroundColor = DEFAULT_COLORS.background
    /\ identity = [adjustments |-> "DEFAULT_ADJUSTMENTS", patternOptions |-> "DEFAULT_PATTERN"]
    /\ \E tileOk \in BOOLEAN :
          /\ Refused(tileOk, "ok") <= MaxFailures
          /\ failures = Refused(tileOk, "ok")
          /\ pattern = createPattern("dots", DEFAULT_PATTERN, DEFAULT_COLORS.pattern, tileOk)
    /\ canvas = DefaultCanvas
    /\ last = LastRun("no-bitmap", "none", NoSize, NoBuffer, NoBuffer)
    /\ pending = {}
    /\ selected = ""
    /\ events = 0

Init == InitApp /\ call = NoCall /\ ret = NoCall

\* handleFile up to its await (from onFileChange, or onDrop of an image)
handleFile(f) ==
    /\ events < MaxEvents
    /\ events' = events + 1
    /\ Cardinality(pending) < MaxPending
    /\ f \notin pending
    /\ pending' = pending \cup {f}
    /\ selected' = f
    /\ UNCHANGED <<bitmap, fileName, adjustments, presetId, patternType, patternSide,
                   patternOptions, invertColors, patternColor, backgroundColor, identity,
                   pattern, canvas, last, failures, call, ret>>

\* handleFile after its await: createImageBitmap resolved
DecodeResolve(f, tileOk, surface) ==
    /\ f \in pending
    /\ pending' = pending \ {f}
    /\ bitmap' = FileBitmap(f)
    /\ fileName' = f
    /\ UNCHANGED <<adjustments, presetId, patternType, patternSide, patternOptions,
                   invertColors, patternColor, backgroundColor, identity, selected, events,
                   call, ret>>
    /\ Rerender(FALSE, FALSE, TRUE, tileOk, surface)

\* createImageBitmap rejected: handleFile ends at its await
DecodeReject(f) ==
    /\ f \in pending
    /\ pending' = pending \ {f}
    /\ UNCHANGED <<bitmap, fileName, adjustments, presetId, patternType, patternSide,
                   patternOptions, invertColors, patternColor, backgroundColor, identity,
                   pattern, canvas, last, selected, events, failures, call, ret>>

\* onPresetChange
onPresetChange(id, tileOk, surface) ==
    /\ Edit
    /\ id # presetId
    /\ presetId' = id
    /\ IF id = "custom"
       THEN UNCHANGED <<adjustments, identity>>
       ELSE /\ adjustments' = FindPreset(id).adjustments
            /\ identity' = [identity EXCEPT !.adjustments = id]
    /\ UNCHANGED <<bitmap, fileName, patternType, patternSide, patternOptions,
                   invertColors, patternColor, backgroundColor>>
    /\ Rerender(identity'.adjustments # identity.adjustments, FALSE, FALSE, tileOk, surface)

\* A slider's onChange without its setPresetId("custom").
SlideAdjustmentKeepsPreset(next, tileOk, surface) ==
    /\ Edit
    /\ adjustments' = next
    /\ identity' = [identity EXCEPT !.adjustments = "fresh"]
    /\ UNCHANGED <<bitmap, fileName, presetId, patternType, patternSide, patternOptions,
                   invertColors, patternColor, backgroundColor>>
    /\ Rerender(TRUE, FALSE, FALSE, tileOk, surface)

\* An adjustment slider's onChange: a new object with one field replaced,
\* and presetId "custom".
SlideAdjustment(next, tileOk, surface) ==
    /\ Edit
    /\ adjustments' = next
    /\ identity' = [identity EXCEPT !.adjustments = "fresh"]
    /\ presetId' = "custom"
    /\ UNCHANGED <<bitmap, fileName, patternType, patternSide, patternOptions,
                   invertColors, patternColor, backgroundColor>>
    /\ Rerender(TRUE, FALSE, FALSE, tileOk, surface)

SetBrightness(value, tileOk, surface) ==
    /\ value # adjustments.brightness
    /\ SlideAdjustment([adjustments EXCEPT !.brightness = value], tileOk, surface)

SetContrast(value, tileOk, surface) ==
    /\ value # adjustments.contrast
    /\ SlideAdjustment([adjustments EXCEPT !.contrast = value], tileOk, surface)

SetThreshold(value, tileOk, surface) ==
    /\ value # adjustments.threshold
    /\ SlideAdjustment([adjustments EXCEPT !.threshold = value], tileOk, surface)

SetPatternType(type, tileOk, surface) ==
    /\ Edit
    /\ type # patternType
    /\ patternType' = type
    /\ UNCHANGED <<bitmap, fileName, adjustments, presetId, patternSide, patternOptions,
                   invertColors, patternColor, backgroundColor, identity>>
    /\ Rerender(FALSE, FALSE, FALSE, tileOk, surface)

SetPatternColor(color, tileOk, surface) ==
    /\ Edit
    /\ color # patternColor
    /\ patternColor' = color
    /\ UNCHANGED <<bitmap, fileName, adjustments, presetId, patternType, patternSide,
                   patternOptions, invertColors, backgroundColor, identity>>
    /\ Rerender(FALSE, FALSE, FALSE, tileOk, surface)

SetBackgroundColor(color, tileOk, surface) ==
    /\ Edit
    /\ color # backgroundColor
    /\ backgroundColor' = color
    /\ UNCHANGED <<bitmap, fileName, adjustments, presetId, patternType, patternSide,
                   patternOptions, invertColors, patternColor, identity>>
    /\ Rerender(FALSE, FALSE, FALSE, tileOk, surface)

\* The "Invert colors" checkbox
SetInvertColors(tileOk, surface) ==
    /\ Edit
    /\ invertColors' = ~invertColors
    /\ UNCHANGED <<bitmap, fileName, adjustments, presetId, patternType, patternSide,
                   patternOptions, patternColor, backgroundColor, identity>>
    /\ Rerender(FALSE, FALSE, FALSE, tileOk, surface)

\* The "Pattern on dark" and "Pattern on light" buttons
SetPatternSide(side, tileOk, surface) ==
    /\ Edit
    /\ side # patternSide
    /\ patternSide' = side
    /\ UNCHANGED <<bitmap, fileName, adjustments, presetId, patternType, patternOptions,
                   invertColors, patternColor, backgroundColor, identity>>
    /\ Rerender(FALSE, FALSE, FALSE, tileOk, surface)

\* A pattern slider's onChange: a new object with one field replaced
SlidePattern(next, tileOk, surface) ==
    /\ Edit
    /\ patternOptions' = next
    /\ identity' = [identity EXCEPT !.patternOptions = "fresh"]
    /\ UNCHANGED <<bitmap, fileName, adjustments, presetId, patternType, patternSide,
                   invertColors, patternColor, backgroundColor>>
    /\ Rerender(FALSE, TRUE, FALSE, tileOk, surface)

SetScale(value, tileOk, surface) ==
    /\ value # patternOptions.scale
    /\ SlidePattern([patternOptions EXCEPT !.scale = value], tileOk, surface)

SetStroke(value, tileOk, surface) ==
    /\ value # patternOptions.stroke
    /\ SlidePattern([patternOptions EXCEPT !.stroke = value], tileOk, surface)

SetRotation(value, tileOk, surface) ==
    /\ value # patternOptions.rotation
    /\ SlidePattern([patternOptions EXCEPT !.rotation = value], tileOk, surface)

resetControls(tileOk, surface) ==
    /\ Edit
    /\ adjustments' = DEFAULT_ADJUSTMENTS
    /\ presetId' = "neutral"
    /\ patternOptions' = DEFAULT_PATTERN
    /\ patternType' = "dots"
    /\ patternSide' = "dark"
    /\ patternColor' = DEFAULT_COLORS.pattern
    /\ backgroundColor' = DEFAULT_COLORS.background
    /\ invertColors' = FALSE
    /\ identity' = [adjustments |-> "DEFAULT_ADJUSTMENTS", patternOptions |-> "DEFAULT_PATTERN"]
    /\ UNCHANGED <<bitmap, fileName>>
    /\ Rerender(identity.adjustments # "DEFAULT_ADJUSTMENTS",
                identity.patternOptions # "DEFAULT_PATTERN", FALSE, tileOk, surface)

Next ==
    \/ \E f \in FileNames : handleFile(f)
    \/ \E f \in FileNames, tileOk \in BOOLEAN, surface \in Surfaces : DecodeResolve(f, tileOk, surface)
    \/ \E f \in FileNames : DecodeReject(f)
    \/ \E id \in PresetIds \cup {"custom"}, tileOk \in BOOLEAN, surface \in Surfaces :
          onPresetChange(id, tileOk, surface)
    \/ \E value \in BrightnessInputs, tileOk \in BOOLEAN, surface \in Surfaces :
          SetBrightness(value, tileOk, surface)
    \/ \E value \in ContrastInputs, tileOk \in BOOLEAN, surface \in Surfaces :
          SetContrast(value, tileOk, surface)
    \/ \E value \in ThresholdInputs, tileOk \in BOOLEAN, surface \in Surfaces :
          SetThreshold(value, tileOk, surface)
    \/ \E type \in PatternTypes, tileOk \in BOOLEAN, surface \in Surfaces :
          SetPatternType(type, tileOk, surface)
    \/ \E color \in ColorInputs, tileOk \in BOOLEAN, surface \in Surfaces :
          SetPatternColor(color, tileOk, surface)
    \/ \E color \in ColorInputs, tileOk \in BOOLEAN, surface \in Surfaces :
          SetBackgroundColor(color, tileOk, surface)
    \/ \E tileOk \in BOOLEAN, surface \in Surfaces : SetInvertColors(tileOk, surface)
    \/ \E side \in {"dark", "light"}, tileOk \in BOOLEAN, surface \in Surfaces :
          SetPatternSide(side, tileOk, surface)
    \/ \E value \in ScaleInputs, tileOk \in BOOLEAN, surface \in Surfaces :
          SetScale(value, tileOk, surface)
    \/ \E value \in StrokeInputs, tileOk \in BOOLEAN, surface \in Surfaces :
          SetStroke(value, tileOk, surface)
    \/ \E value \in RotationInputs, tileOk \in BOOLEAN, surface \in Surfaces :
          SetRotation(value, tileOk, surface)
    \/ \E tileOk \in BOOLEAN, surface \in Surfaces : resetControls(tileOk, surface)

Spec == Init /\ [][Next]_vars

(***************************************************************************)
(* The library functions of imageOps.ts, called directly: one call, with   *)
(* any of the arguments below, and then createMaskCanvas on what           *)
(* applyAdjustments returned.                                              *)
(***************************************************************************)
ApplyCalls ==
    {[fn |-> "applyAdjustments", source |-> px, adjustments |-> adj, ctxOk |-> ok,
      width |-> 1, height |-> 1] : px \in CallPixels, adj \in CallAdjustments, ok \in BOOLEAN}

PatternCalls ==
    {[fn |-> "createPattern", type |-> type, options |-> opts, color |-> "#000000", ctxOk |-> ok] :
        type \in PatternTypes, opts \in CallOptions, ok \in BOOLEAN}

InitPure == InitApp /\ call \in ApplyCalls \cup PatternCalls /\ ret = NoCall

AppUnchanged ==
    UNCHANGED <<bitmap, fileName, adjustments, presetId, patternType, patternSide,
                patternOptions, invertColors, patternColor, backgroundColor, identity,
                pattern, canvas, last, pending, selected, events, failures>>

RunApplyAdjustments ==
    /\ call.fn = "applyAdjustments"
    /\ ret = NoCall
    /\ ret' = applyAdjustments([p \in InBounds(call.width, call.height) |-> call.source],
                               call.ctxOk, call.adjustments, call.width, call.height)
    /\ UNCHANGED call
    /\ AppUnchanged

RunCreatePattern ==
    /\ call.fn = "createPattern"
    /\ ret = NoCall
    /\ ret' = [made |-> createPattern(call.type, call.options, call.color, call.ctxOk)]
    /\ UNCHANGED call
    /\ AppUnchanged

RunCreateMaskCanvas(patternOn, ok) ==
    /\ call.fn = "applyAdjustments"
    /\ ret # NoCall
    /\ ret.error = "none"
    /\ call' = [fn |-> "createMaskCanvas", imageData |-> ret.processed,
                patternOn |-> patternOn, ctxOk |-> ok]
    /\ ret' = createMaskCanvas(ret.processed, patternOn, ok)
    /\ AppUnchanged

NextPure ==
    \/ RunApplyAdjustments
    \/ RunCreatePattern
    \/ \E patternOn \in {"dark", "light"}, ok \in BOOLEAN : RunCreateMaskCanvas(patternOn, ok)

SpecPure == InitPure /\ [][NextPure]_vars

(***************************************************************************)
(* The claims.                                                             *)
(***************************************************************************)
\* The latest run of the render effect painted the display canvas; every
\* dependency of the effect is then as it was in that run.
Painted == last.outcome = "painted"

MaskAlpha(p) == last.mask.data[p].a

\* C1 (as claimed): on the tiled path, at every pixel where the mask alpha is
\* 0 the final canvas pixel is the opaque background colour.
C1_TiledBackgroundLaw ==
    Painted /\ pattern # NoPattern =>
        \A p \in DOMAIN canvas.data :
            MaskAlpha(p) = 0 => canvas.data[p] = Solid(effectiveBackgroundColor)

\* C2 (as claimed): on the fallback path (the pattern is null) the output is
\* a flat two-colour image: a pixel is the pattern colour if and only if the
\* mask alpha there is 255, and the background colour where it is 0.
C2_FallbackTwoColour ==
    Painted /\ pattern = NoPattern =>
        \A p \in DOMAIN canvas.data :
            /\ canvas.data[p] = Solid(effectivePatternColor) <=> MaskAlpha(p) = 255
            /\ MaskAlpha(p) = 0 => canvas.data[p] = Solid(effectiveBackgroundColor)

\* C3: on the tiled path, at every pixel where the mask alpha is 255 the
\* final pixel is the repeated tile drawn source-over on the background fill
\* (the pattern colour where the tile is opaque, the background colour where
\* it is transparent), and no pixel outside the mask-selected region shows
\* the pattern.
C3_TiledPatternInMask ==
    Painted /\ pattern # NoPattern =>
        /\ pattern.color = effectivePatternColor
        /\ DOMAIN canvas.data = DOMAIN last.mask.data
        /\ \A p \in DOMAIN canvas.data :
              LET at  == <<p[1] % pattern.width, p[2] % pattern.width>>
                  cov == TileCoverage(pattern, at[1], at[2])
                  bg  == Solid(effectiveBackgroundColor)
              IN  IF MaskAlpha(p) = 255
                  THEN canvas.data[p] =
                          CASE cov = "opaque" -> Solid(effectivePatternColor)
                            [] cov = "clear"  -> bg
                            [] OTHER -> [src |-> [tile |-> pattern, at |-> at], under |-> bg]
                  ELSE /\ ~IsBlend(canvas.data[p])
                       /\ \/ canvas.data[p] # Solid(effectivePatternColor)
                          \/ effectivePatternColor = effectiveBackgroundColor

\* C3's case: a checker tile over a mask that selects pixels where the tile
\* is opaque, pixels where it is transparent, and leaves pixels out.
C3_Witness ==
    /\ Painted
    /\ pattern # NoPattern
    /\ pattern.type = "checker"
    /\ effectivePatternColor # effectiveBackgroundColor
    /\ \E p, q, r \in DOMAIN canvas.data :
          /\ MaskAlpha(p) = 255 /\ canvas.data[p] = Solid(effectivePatternColor)
          /\ MaskAlpha(q) = 255 /\ canvas.data[q] = Solid(effectiveBackgroundColor)
          /\ MaskAlpha(r) = 0

\* brightness, contrast and threshold within their documented ranges
InRange(adj) ==
    /\ adj.brightness \in -100..100
    /\ adj.contrast \in -100..100
    /\ adj.threshold \in 0..100

Returned(fn) == call.fn = fn /\ ret # NoCall

\* C4: for every source pixel and every Adjustments within the documented
\* ranges, every pixel of the buffer applyAdjustments returns has
\* R = G = B, that value 0 or 255, and A = 255.
C4_BinaryOutput ==
    Returned("applyAdjustments") /\ InRange(call.adjustments) /\ ret.error = "none" =>
        /\ DOMAIN ret.processed.data = InBounds(call.width, call.height)
        /\ \A p \in DOMAIN ret.processed.data :
              LET px == ret.processed.data[p]
              IN  px.r = px.g /\ px.g = px.b /\ px.r \in {0, 255} /\ px.a = 255

\* C4's case: a transparent source pixel comes back opaque and binary.
C4_Witness ==
    /\ Returned("applyAdjustments")
    /\ InRange(call.adjustments)
    /\ ret.error = "none"
    /\ call.source.a = 0
    /\ ret.processed.data[<<0, 0>>].a = 255

\* C5 (as claimed): with threshold 50, brightness 0 and contrast 0, an opaque
\* pixel is classified light (255) if and only if
\* 0.299 R + 0.587 G + 0.114 B >= 127.5, the boundary itself being light.
C5_BoundaryAtHalf ==
    /\ Returned("applyAdjustments")
    /\ call.adjustments = [brightness |-> 0, contrast |-> 0, threshold |-> 50]
    /\ call.source.a = 255
    /\ ret.error = "none"
    => (ret.processed.data[<<0, 0>>].r = 255
          <=> 299 * call.source.r + 587 * call.source.g + 114 * call.source.b >= 127500)

\* C6: for every binary buffer b the tone adjuster produced, the "dark" and
\* the "light" mask have b's dimensions, R = G = B = 0, alphas of 0 or 255
\* that sum to 255 at every pixel: the dark mask's alpha is 255 iff b.R is
\* not 255, the light mask's iff b.R is 255.
C6_MaskComplement ==
    Returned("createMaskCanvas") /\ ret.error = "none" =>
        LET b     == call.imageData
            other == createMaskCanvas(b, IF call.patternOn = "dark" THEN "light" ELSE "dark", TRUE).mask
            dark  == IF call.patternOn = "dark" THEN ret.mask ELSE other
            light == IF call.patternOn = "dark" THEN other ELSE ret.mask
        IN  /\ \A m \in {dark, light} :
                  /\ m.width = b.width /\ m.height = b.height
                  /\ DOMAIN m.data = DOMAIN b.data
                  /\ \A p \in DOMAIN m.data :
                        /\ m.data[p].r = 0 /\ m.data[p].g = 0 /\ m.data[p].b = 0
                        /\ m.data[p].a \in {0, 255}
            /\ \A p \in DOMAIN b.data :
                  /\ dark.data[p].a + light.data[p].a = 255
                  /\ dark.data[p].a = 255 <=> b.data[p].r # 255
                  /\ light.data[p].a = 255 <=> b.data[p].r = 255

\* C6's case: the dark mask of a light pixel is transparent there.
C6_Witness ==
    /\ Returned("createMaskCanvas")
    /\ ret.error = "none"
    /\ call.patternOn = "dark"
    /\ call.imageData.data[<<0, 0>>].r = 255
    /\ ret.mask.data[<<0, 0>>].a = 0

\* The render of the current bitmap and controls with the stored colours
\* exchanged and invert off: the tile of colour backgroundColor, the fill of
\* colour patternColor.
SwappedTile ==
    IF pattern = NoPattern THEN NoPattern
    ELSE createPattern(patternType, patternOptions, backgroundColor, TRUE)

SwappedRender ==
    RenderEffect(bitmap, adjustments, patternSide, SwappedTile,
                 patternColor, backgroundColor, canvas, "ok").canvas

InvertLaw == invertColors /\ Painted => pattern = SwappedTile /\ canvas = SwappedRender

ToggleInvert == \E tileOk \in BOOLEAN, surface \in Surfaces : SetInvertColors(tileOk, surface)

\* C7: a render with patternColor A, backgroundColor B and invert on is the
\* render with patternColor B, backgroundColor A and invert off (the tile
\* colour and the background fill agree); toggling invert leaves the stored
\* patternColor and backgroundColor as they are.
C7_InvertLaw ==
    /\ []InvertLaw
    /\ [][ToggleInvert => patternColor' = patternColor /\ backgroundColor' = backgroundColor]_vars

\* C7's case: invert is on over two different colours, and a tile was made
\* and painted.
C7_Witness ==
    /\ Painted
    /\ invertColors
    /\ patternColor # backgroundColor
    /\ pattern # NoPattern
    /\ pattern.color = backgroundColor
    /\ \E p \in DOMAIN canvas.data : MaskAlpha(p) = 255

\* The run of the render effect reached the sizing rule and lost no drawing
\* surface.
Sized ==
    /\ bitmap # NoBitmap
    /\ last.outcome \in {"painted", "threw"}
    /\ last.error # "Canvas context not available"

\* C8 (as claimed): for every source bitmap the output is width x height =
\* round(w*s) x round(h*s), s = min(1280/w, 1280/h, 1): never larger than
\* the source, at most 1280 on its larger side, the source's size when that
\* fits; and applyAdjustments, the mask and the display canvas all have
\* exactly this width and height.
C8_SizingRule ==
    Sized =>
        /\ last.width <= bitmap.width /\ last.height <= bitmap.height
        /\ Max(last.width, last.height) <= maxSize
        /\ Max(bitmap.width, bitmap.height) <= maxSize =>
              last.width = bitmap.width /\ last.height = bitmap.height
        /\ last.working = [width |-> last.width, height |-> last.height]
        /\ last.mask.width = last.width /\ last.mask.height = last.height
        /\ canvas.width = last.width /\ canvas.height = last.height

\* The documented ranges: brightness and contrast -100..100, threshold
\* 0..100; scale 0.5..3.0 (hundredths), stroke 0.5..6.0 (quarters), rotation
\* 0..180.
Nearest(value, low, high) == Max(low, Min(high, value))

NearestAdjustments(adj) ==
    [brightness |-> Nearest(adj.brightness, -100, 100),
     contrast   |-> Nearest(adj.contrast, -100, 100),
     threshold  |-> Nearest(adj.threshold, 0, 100)]

NearestOptions(opts) ==
    [scale    |-> Nearest(opts.scale, 50, 300),
     stroke   |-> Nearest(opts.stroke, 2, 24),
     rotation |-> Nearest(opts.rotation, 0, 180)]

\* C9 (as claimed): for any out-of-range brightness, contrast, threshold,
\* scale, stroke or rotation, applyAdjustments and createPattern return what
\* they return for the nearest value in range.
C9_InputsClamped ==
    /\ Returned("applyAdjustments") =>
          ret = applyAdjustments([p \in InBounds(call.width, call.height) |-> call.source],
                                 call.ctxOk, NearestAdjustments(call.adjustments),
                                 call.width, call.height)
    /\ Returned("createPattern") =>
          ret.made = createPattern(call.type, NearestOptions(call.options), call.color, call.ctxOk)

\* The latest render stopped for want of a drawing surface.
Aborted ==
    \/ last.outcome = "no-context"
    \/ last.outcome = "threw" /\ last.error = "Canvas context not available"

RenderNow ==
    RenderEffect(bitmap, adjustments, patternSide, pattern,
                 effectiveBackgroundColor, effectivePatternColor, canvas, "ok")

\* The display canvas and the run record are those of a run of the effect.
Shows(run) == canvas = run.canvas /\ last = run.last

\* C11: renders reach the display canvas in request order: whenever the
\* latest render completed, the canvas shows the render of the current
\* state cells (the most recent parameter snapshot), and a step changes the
\* canvas only by completing a render.
C11_RequestOrder ==
    /\ [](Painted => Shows(RenderNow))
    /\ [][canvas' # canvas => Painted']_vars

\* C11's case: a render of a file was followed by a parameter change and
\* the render it requested.
C11_Witness ==
    /\ Painted
    /\ events = MaxEvents
    /\ patternType # "dots"
    /\ pattern # NoPattern
    /\ pattern.type = patternType
    /\ canvas = RenderNow.canvas

\* C12 (as claimed): for every scale in 0.5..3.0 the tile createPattern
\* makes has the edge max(24, 80 * scale) in pixels, and the geometry drawn
\* into it uses that same edge as its size.
C12_TileSizeLaw ==
    Returned("createPattern") /\ ret.made # NoPattern /\ call.options.scale \in 50..300 =>
        /\ 100 * ret.made.width = Max(100 * 24, baseSize * call.options.scale)
        /\ FCmp(F(ret.made.width), ret.made.size) = 0

\* The line starts of the diagonal tile of the call's options.
DiagonalStarts == createPattern("diagonal", call.options, call.color, TRUE).lines

\* C13 (as claimed): the crosshatch tile is the diagonal family of lines
\* drawn twice, sloping down and mirrored sloping up, unrotated: its line
\* starts are the line starts of the diagonal tile of the same options.
C13_CrosshatchIsDiagonalTwice ==
    Returned("createPattern") /\ ret.made # NoPattern /\ call.type = "crosshatch" =>
        /\ ret.made.slopes = {"down", "up"}
        /\ ret.made.rotation = 0
        /\ ret.made.lines = DiagonalStarts

\* C14 (as claimed): when file selections overlap, the most recently selected
\* file wins: once its decode has resolved and it is shown, a decode of an
\* earlier selection that resolves later replaces neither the bitmap nor the
\* file name, and the displayed render stays the render of its bitmap.
C14_LatestFileWins ==
    [][/\ selected \in FileNames /\ selected' = selected
       /\ fileName = selected /\ bitmap = FileBitmap(selected)
       =>
          /\ fileName' = selected
          /\ bitmap' = FileBitmap(selected)
          /\ Painted' => canvas' = RenderNow'.canvas]_vars

\* C15 (as claimed): for every source bitmap of positive width and height
\* the render effect computes an output of at least 1 x 1, so the working
\* buffer that getImageData reads and the mask are never empty.
C15_OutputNeverEmpty ==
    Sized /\ bitmap.width >= 1 /\ bitmap.height >= 1 =>
        /\ last.width >= 1 /\ last.height >= 1
        /\ last.working.width >= 1 /\ last.working.height >= 1
        /\ last.error # "IndexSizeError"
        /\ Painted => last.mask.width >= 1 /\ last.mask.height >= 1

\* The preset menu is set to "custom"; the Reset button is pressed.
SelectCustom ==
    \E tileOk \in BOOLEAN, surface \in Surfaces : onPresetChange("custom", tileOk, surface)

PressReset ==
    \E tileOk \in BOOLEAN, surface \in Surfaces : resetControls(tileOk, surface)

\* C16: whenever presetId names a preset, the adjustments are that preset's;
\* every step in which a slider makes new adjustments leaves presetId
\* "custom"; selecting "custom" leaves the adjustments as they are; and Reset
\* leaves presetId "neutral" with the default adjustments.
C16_PresetMatchesAdjustments ==
    /\ [](presetId # "custom" =>
            presetId \in PresetIds /\ adjustments = FindPreset(presetId).adjustments)
    /\ [][(adjustments' # adjustments /\ identity'.adjustments = "fresh") =>
              presetId' = "custom"]_vars
    /\ [][SelectCustom => adjustments' = adjustments]_vars
    /\ [][PressReset => presetId' = "neutral" /\ adjustments' = DEFAULT_ADJUSTMENTS]_vars

\* C16's case: after a first change of a control, a preset other than the
\* initial one is selected.
C16_Witness ==
    /\ events = MaxEvents
    /\ presetId \in PresetIds \ {"neutral"}
    /\ identity.adjustments = presetId
    /\ adjustments = FindPreset(presetId).adjustments

====
